---- MODULE Spec2Model ----
(***************************************************************************)
(* Model of the two protocol decoders of libsigrokdecode:                  *)
(*   decoders/dmx512/pd.py   - the bit-timing engine (DMX512)              *)
(*   decoders/spiflash/pd.py - the command-dispatch engine (SPI flash)     *)
(* Each decoder is one Decoder object; an action is the processing of one  *)
(* input event (one sample for dmx512, one SPI packet for spiflash).       *)
(***************************************************************************)
EXTENDS Integers, Sequences, FiniteSets, TLC

VARIABLES
    \* ---- dmx512 Decoder fields (pd.py:55-61, 67-71, 83-136)
    samplerate, sample_usec, skip_per_bit, samplenum, run_start, run_bit,
    state, bit_break, channel, bit, aggreg, byte,
    \* ---- dmx512: what the host sees
    out,        \* annotations put() while the last sample was processed
    err,        \* exception raised by the last decode() call ("" = none)
    \* ---- dmx512: observations of the input stream (not decoder state)
    feed,       \* the stream being fed: free levels, or a synthetic frame
    pin,        \* level of the last sample fed (-1 before the first)
    lvl_start,  \* sample at which the level held by the input began
    resync,     \* "start"/"stop": an invalid start/stop bit sent the decoder
                \* seeking and it has found no break since; "" otherwise
    nData,      \* data annotations emitted for the synthetic frame
    dataOk,     \* they all matched the transmitted bytes so far
    nErr,       \* error annotations emitted for the synthetic frame
    \* ---- spiflash Decoder fields (pd.py:91-110, 134, 144, 211, 320, 325, 375)
    fstate,     \* self.state: the active opcode, None = awaiting an opcode
    cmdstate, addr, data, on_end_transaction, ss, es, ss_block, es_block,
    device_id, ids, manufacturer_id_first,
    format,     \* self.options['format']
    \* ---- spiflash: what the host sees
    fout,       \* annotations put() while the last packet was processed
    \* ---- spiflash: observations of the packet stream (not decoder state)
    ev,         \* the last packet: [ptype, mosi, miso]
    now,        \* packets fed so far; packet k spans samples k..k+1
    f_prev_hi,  \* largest start sample put() before the last packet
    g_op,       \* opcode of the command the last DATA packets belong to
    g_p,        \* DATA packets of that command so far (1 = the opcode)
    g_ab,       \* its address bytes (packets 2..4), in arrival order
    g_data,     \* data bytes (after address and dummy) of the open session
    g_ss,       \* start sample of the first of them
    g_cs,       \* start sample of the opcode packet of the command in progress
    \* ---- spiflash: the module-level function decode_dual_bytes (pd.py:27-38)
    sio,        \* its arguments <<sio0, sio1>>
    pair        \* the tuple it returned (<<>> before the call)

dvars == <<samplerate, sample_usec, skip_per_bit, samplenum, run_start, run_bit,
           state, bit_break, channel, bit, aggreg, byte,
           out, err, feed, pin, lvl_start, resync, nData, dataOk, nErr>>

fvars == <<fstate, cmdstate, addr, data, on_end_transaction, ss, es, ss_block,
           es_block, device_id, ids, manufacturer_id_first, format, fout, ev, now,
           f_prev_hi, g_op, g_p, g_ab, g_data, g_ss, g_cs, sio, pair>>

vars == <<dvars, fvars>>

----------------------------------------------------------------------------
\* Bounds of the model

\* free-running input: samples 0..MaxSample are fed
MaxSample == 50
\* synthetic frames carry 0..MaxN channel bytes (plus one full packet)
MaxN == 2
\* spiflash: packets fed
MaxEvents == 7
\* spiflash: packets fed when only addressed commands are sent
MaxAddrEvents == 9
\* spiflash: data bytes a session carries at most
MaxData == 2

\* Program constants
BreakMin == 88
BreakMax == 180
MaxChannels == 512
BitUsec == 4
UsecPerSec == 1000000

\* sample rates supplied by the host; 1/rate*1000000 is exact in binary
\* floating point for each of them (4.0, 2.0, 1.0)
Rates == {250000, 500000, 1000000}
\* rates used with free-running input
FreeRates == {250000}

None == -1

----------------------------------------------------------------------------
\* Pure helpers

RECURSIVE BitOr(_, _)
BitOr(a, b) ==
    IF a = 0 THEN b
    ELSE IF b = 0 THEN a
    ELSE (IF (a % 2 = 1) \/ (b % 2 = 1) THEN 1 ELSE 0) + 2 * BitOr(a \div 2, b \div 2)

RECURSIVE Shl(_, _)
Shl(a, n) == IF n = 0 THEN a ELSE Shl(2 * a, n - 1)

\* Python 3 round(n / d) for n >= 0, d > 0: round half to even
Round(n, d) ==
    LET q == n \div d
        r == n % d
    IN  IF 2 * r < d THEN q
        ELSE IF 2 * r > d THEN q + 1
        ELSE IF q % 2 = 0 THEN q ELSE q + 1

Ann(s, e, c, t, v) == [ss |-> s, es |-> e, cls |-> c, t |-> t, v |-> v]

\* pd.py:80, the duration of a run in microseconds
RunLen(delta, usec) == delta * usec

\* (variant of IsBreak: the window bounds taken as inclusive)
IsBreak_inclusive(runlen) == runlen >= BreakMin /\ runlen <= BreakMax

\* pd.py:81
IsBreak(runlen) == runlen > BreakMin /\ runlen < BreakMax

\* pd.py:103
BitValue(agg, skip, brk) == IF Round(agg, skip) = brk THEN 0 ELSE 1

\* (variant of IsInterpacket: the packet taken as full one byte early)
IsInterpacket_early(ch) == ch >= MaxChannels

\* pd.py:143
IsInterpacket(ch) == ch > MaxChannels

----------------------------------------------------------------------------
\* The input streams

FreeFeed == [kind |-> "free", n |-> 0, brk |-> 0, mab |-> 0, gap |-> 0, val |-> 0]

FrameVals == {0, 1, 170, 255}

\* well-formed frames: a break, a mark after break, the start code and n
\* channel bytes; the last one is a full packet of MaxChannels channels
Frames ==
    [kind : {"frame"}, n : 0..MaxN, brk : {0, 1}, mab : {1, 3}, gap : {1, 2},
     val : FrameVals]
    \cup [kind : {"frame"}, n : {MaxChannels}, brk : {0}, mab : {1}, gap : {1},
          val : {170}]

\* a frame whose first byte is cut short: one low sample after the mark
\* after break, then the line goes high and holds for a run of in-window
\* duration (gap selects the shortest or the longest), then goes low
Flips ==
    [kind : {"flip"}, n : {0}, brk : {0, 1}, mab : {1, 3}, gap : {0, 1}, val : {0}]

\* the shortest (sel = 0) or the longest (sel = 1) number of samples whose
\* duration is strictly inside the break window
InWindow(sel, usec) ==
    IF sel = 0 THEN (BreakMin \div usec) + 1 ELSE (BreakMax - 1) \div usec

\* byte k of the frame: the start code 0, then the channel bytes
FrameByte(f, k) == IF k = 0 THEN 0 ELSE (f.val + 2 * (k - 1)) % 256

\* samples of the frame: one idle mark sample, break, mark after break,
\* n+1 bytes each followed by a mark gap, then the line is pulled low
FrameBase(f, usec) == 1 + InWindow(f.brk, usec) + f.mab

FrameLen(f, usec, spb) ==
    IF f.kind = "flip"
    THEN FrameBase(f, usec) + 1 + InWindow(f.gap, usec) + 1
    ELSE FrameBase(f, usec) + (f.n + 1) * (11 * spb + f.gap) + 1

FrameLevel(f, usec, spb, pos) ==
    IF pos = 0 THEN 1
    ELSE IF pos <= InWindow(f.brk, usec) THEN 0
    ELSE IF pos < FrameBase(f, usec) THEN 1
    ELSE IF f.kind = "flip"
    THEN LET rel == pos - FrameBase(f, usec)
         IN  IF rel = 0 THEN 0
             ELSE IF rel <= InWindow(f.gap, usec) THEN 1
             ELSE 0
    ELSE LET rel == pos - FrameBase(f, usec)
             per == 11 * spb + f.gap
             k   == rel \div per
             off == rel % per
             j   == off \div spb
         IN  IF k > f.n THEN 0
             ELSE IF off >= 11 * spb THEN 1
             ELSE IF j = 0 THEN 0
             ELSE IF j >= 9 THEN 1
             ELSE (FrameByte(f, k) \div Shl(1, j - 1)) % 2

----------------------------------------------------------------------------
\* dmx512: Decoder.__init__ (pd.py:55-61); the fields decode() creates later
\* (bit_break, channel, bit, aggreg, byte) are shown as -1; next_sample is
\* recomputed before every use (pd.py:100) and is a LET in ReadByte

InitDmx ==
    /\ samplerate = None
    /\ sample_usec = None
    /\ skip_per_bit = None
    /\ samplenum = -1
    /\ run_start = -1
    /\ run_bit = 0
    /\ state = "FIND_BREAK"
    /\ bit_break = -1
    /\ channel = -1
    /\ bit = -1
    /\ aggreg = -1
    /\ byte = -1
    /\ out = <<>>
    /\ err = ""
    /\ feed \in {FreeFeed} \cup Frames \cup Flips
    /\ pin = -1
    /\ lvl_start = -1
    /\ resync = ""
    /\ nData = 0
    /\ dataOk = TRUE
    /\ nErr = 0

\* Decoder.metadata (pd.py:67-71); the host supplies the rate once, before
\* the first sample
Metadata(value) ==
    /\ samplerate = None
    /\ samplenum = -1
    /\ feed = FreeFeed => value \in FreeRates
    /\ feed.n = MaxChannels => value = 500000
    /\ feed.kind = "flip" => value = 250000
    /\ samplerate' = value
    /\ sample_usec' = UsecPerSec \div value
    /\ skip_per_bit' = BitUsec \div (UsecPerSec \div value)
    /\ err' = ""
    /\ UNCHANGED <<samplenum, run_start, run_bit, state, bit_break, channel, bit,
                   aggreg, byte, out, feed, pin, lvl_start,
                   resync, nData, dataOk, nErr>>
    /\ UNCHANGED fvars

\* (variant of DecodeUnconfigured: the first sample is consumed all the same)
DecodeUnconfigured_consumes ==
    /\ samplerate = None
    /\ samplenum' = samplenum + 1
    /\ err' = ""
    /\ UNCHANGED <<samplerate, sample_usec, skip_per_bit, run_start,
                   run_bit, state, bit_break, channel, bit, aggreg, byte,
                   out, feed, pin, lvl_start, resync, nData, dataOk, nErr>>
    /\ UNCHANGED fvars

\* Decoder.decode (pd.py:74-75): no sample rate yet
DecodeUnconfigured ==
    /\ samplerate = None
    /\ err' = "Cannot decode without samplerate."
    /\ UNCHANGED <<samplerate, sample_usec, skip_per_bit, samplenum, run_start,
                   run_bit, state, bit_break, channel, bit, aggreg, byte,
                   out, feed, pin, lvl_start, resync, nData, dataOk, nErr>>
    /\ UNCHANGED fvars

\* the levels the stream can hold at sample s
Levels(s) ==
    IF samplerate = None THEN {}
    ELSE IF feed = FreeFeed
    THEN IF s <= MaxSample THEN {0, 1} ELSE {}
    ELSE IF s < FrameLen(feed, sample_usec, skip_per_bit)
         THEN {FrameLevel(feed, sample_usec, skip_per_bit, s)}
         ELSE {}

Max(a, b) == IF a >= b THEN a ELSE b

RECURSIVE MaxSs(_)
MaxSs(anns) == IF anns = <<>> THEN -1 ELSE Max(Head(anns).ss, MaxSs(Tail(anns)))

RECURSIVE CountCls(_, _)
CountCls(anns, c) ==
    IF anns = <<>> THEN 0
    ELSE (IF Head(anns).cls = c THEN 1 ELSE 0) + CountCls(Tail(anns), c)

HasText(anns, t) == \E i \in 1..Len(anns) : anns[i].t = t

\* what every processed sample records about the stream and the output
Observe(pins, anns, st) ==
    /\ samplenum' = samplenum + 1
    /\ out' = anns
    /\ err' = ""
    /\ pin' = pins
    /\ lvl_start' = IF pins # pin THEN samplenum + 1 ELSE lvl_start
    /\ resync' = IF HasText(anns, "Invalid start bit") THEN "start"
                  ELSE IF HasText(anns, "Invalid stop bit") /\ st = "FIND_BREAK" THEN "stop"
                  ELSE IF st = "FIND_BREAK" THEN resync
                  ELSE ""
    /\ IF feed.kind # "frame"
       THEN UNCHANGED <<nData, dataOk, nErr>>
       ELSE /\ nData' = nData + CountCls(anns, 9)
            /\ nErr' = nErr + CountCls(anns, 10)
            /\ dataOk' = (dataOk /\ \A i \in 1..Len(anns) :
                                anns[i].cls = 9 => anns[i].v = FrameByte(feed, nData))
    /\ UNCHANGED <<samplerate, sample_usec, skip_per_bit, feed>>
    /\ UNCHANGED fvars

\* decode(), state FIND_BREAK (pd.py:78-87)
FindBreak(pins) ==
    /\ samplerate # None
    /\ state = "FIND_BREAK"
    /\ LET s == samplenum + 1
           runlen == RunLen(s - run_start, sample_usec)
       IN  IF run_bit # pins
           THEN /\ IF IsBreak(runlen)
                   THEN /\ bit_break' = run_bit
                        /\ state' = "MARK_MAB"
                        /\ channel' = 0
                        /\ Observe(pins, <<Ann(run_start, s, 1, "Break", 0)>>, "MARK_MAB")
                   ELSE /\ UNCHANGED <<bit_break, state, channel>>
                        /\ Observe(pins, <<>>, "FIND_BREAK")
                /\ run_bit' = pins
                /\ run_start' = s
           ELSE /\ UNCHANGED <<bit_break, state, channel, run_bit, run_start>>
                /\ Observe(pins, <<>>, "FIND_BREAK")
    /\ UNCHANGED <<bit, aggreg, byte>>

\* (variant of MarkMab: the mark after break leads to the gap state)
MarkMab_to_gap(pins) ==
    /\ samplerate # None
    /\ state = "MARK_MAB"
    /\ LET s == samplenum + 1
       IN  IF run_bit # pins
           THEN /\ state' = "MARK_IFT"
                /\ channel' = 0
                /\ bit' = 0
                /\ aggreg' = pins
                /\ run_start' = s
                /\ Observe(pins, <<Ann(run_start, s, 2, "MAB", 0)>>, "MARK_IFT")
           ELSE /\ UNCHANGED <<state, channel, bit, aggreg, run_start>>
                /\ Observe(pins, <<>>, "MARK_MAB")
    /\ UNCHANGED <<run_bit, bit_break, byte>>

\* decode(), state MARK_MAB (pd.py:89-96)
MarkMab(pins) ==
    /\ samplerate # None
    /\ state = "MARK_MAB"
    /\ LET s == samplenum + 1
       IN  IF run_bit # pins
           THEN /\ state' = "READ_BYTE"
                /\ channel' = 0
                /\ bit' = 0
                /\ aggreg' = pins
                /\ run_start' = s
                /\ Observe(pins, <<Ann(run_start, s, 2, "MAB", 0)>>, "READ_BYTE")
           ELSE /\ UNCHANGED <<state, channel, bit, aggreg, run_start>>
                /\ Observe(pins, <<>>, "MARK_MAB")
    /\ UNCHANGED <<run_bit, bit_break, byte>>

\* decode(), state READ_BYTE (pd.py:98-139)
ReadByte(pins) ==
    /\ samplerate # None
    /\ state = "READ_BYTE"
    /\ LET s   == samplenum + 1
           nxt == run_start + (bit + 1) * skip_per_bit
           agg == aggreg + pins
           bit_value == BitValue(agg, skip_per_bit, bit_break)
           \* pd.py:105-123, the branch on the bit index
           badStart == bit = 0 /\ bit_value # 0
           badStop  == bit >= 9 /\ bit_value # 1
           byte1 == IF bit = 0 THEN 0
                    ELSE IF bit >= 9 THEN byte
                    ELSE BitOr(byte, Shl(bit_value, bit - 1))
           anns1 ==
               IF bit = 0
               THEN <<Ann(run_start, s, 3, "Start bit", 0)>> \o
                    (IF badStart THEN <<Ann(s, s, 10, "Invalid start bit", 0)>> ELSE <<>>)
               ELSE IF bit >= 9
               THEN <<Ann(s - skip_per_bit, s, 4, "Stop bit", 0)>> \o
                    (IF badStop THEN <<Ann(s, s, 10, "Invalid stop bit", 0)>> ELSE <<>>)
               ELSE <<Ann(s - skip_per_bit, s, 0, "Bit", bit_value)>>
           \* pd.py:126-136, a complete byte
           anns2 ==
               IF bit = 10
               THEN <<IF channel = 0
                      THEN Ann(run_start, nxt, 5, "Start code", 0)
                      ELSE Ann(run_start, nxt, 6, "Channel", channel),
                      Ann(run_start + skip_per_bit, nxt - 2 * skip_per_bit, 9, "Data", byte1)>>
               ELSE <<>>
           st1 == IF badStart \/ badStop THEN "FIND_BREAK" ELSE state
           st2 == IF bit = 10 THEN "MARK_IFT" ELSE st1
       IN  /\ IF s = nxt
              THEN /\ aggreg' = pins
                   /\ byte' = byte1
                   /\ state' = st2
                   /\ run_bit' = IF badStart \/ badStop \/ bit = 10 THEN pins ELSE run_bit
                   /\ channel' = IF bit = 10 THEN channel + 1 ELSE channel
                   /\ run_start' = IF bit = 10 THEN s ELSE run_start
                   /\ bit' = bit + 1
                   /\ Observe(pins, anns1 \o anns2, st2)
              ELSE /\ aggreg' = agg
                   /\ UNCHANGED <<byte, state, run_bit, channel, run_start, bit>>
                   /\ Observe(pins, <<>>, "READ_BYTE")
    /\ UNCHANGED <<bit_break>>

\* decode(), state MARK_IFT (pd.py:141-152)
MarkIft(pins) ==
    /\ samplerate # None
    /\ state = "MARK_IFT"
    /\ LET s == samplenum + 1
       IN  IF run_bit # pins
           THEN IF IsInterpacket(channel)
                THEN /\ state' = "FIND_BREAK"
                     /\ run_bit' = pins
                     /\ run_start' = s
                     /\ UNCHANGED bit
                     /\ Observe(pins, <<Ann(run_start, s, 8, "Interpacket", 0)>>, "FIND_BREAK")
                ELSE /\ state' = "READ_BYTE"
                     /\ bit' = 0
                     /\ run_start' = s
                     /\ UNCHANGED run_bit
                     /\ Observe(pins, <<Ann(run_start, s, 7, "Interframe", 0)>>, "READ_BYTE")
           ELSE /\ UNCHANGED <<state, run_bit, run_start, bit>>
                /\ Observe(pins, <<>>, "MARK_IFT")
    /\ UNCHANGED <<bit_break, channel, aggreg, byte>>

NextDmx ==
    \/ \E value \in Rates : Metadata(value)
    \/ DecodeUnconfigured
    \/ \E pins \in Levels(samplenum + 1) : FindBreak(pins)
    \/ \E pins \in Levels(samplenum + 1) : MarkMab(pins)
    \/ \E pins \in Levels(samplenum + 1) : ReadByte(pins)
    \/ \E pins \in Levels(samplenum + 1) : MarkIft(pins)



----------------------------------------------------------------------------
\* spiflash: the tables of decoders/spiflash/lists.py

\* cmds: opcode -> name of the handler method (handle_<name>, pd.py:98-101)
cmds ==
    (6 :> "wren") @@ (4 :> "wrdi") @@ (159 :> "rdid") @@ (5 :> "rdsr") @@
    (1 :> "wrsr") @@ (3 :> "read") @@ (11 :> "fast_read") @@ (187 :> "2read") @@
    (32 :> "se") @@ (216 :> "be") @@ (96 :> "ce") @@ (199 :> "ce2") @@
    (2 :> "pp") @@ (173 :> "cp") @@ (185 :> "dp") @@ (171 :> "rdp_res") @@
    (144 :> "rems") @@ (239 :> "rems2") @@ (177 :> "enso") @@ (193 :> "exso") @@
    (43 :> "rdscur") @@ (47 :> "wrscur") @@ (112 :> "esry") @@ (128 :> "dsry")

\* device_name: device id -> chip name
device_name ==
    (20 :> "MX25L1605D") @@ (21 :> "MX25L3205D") @@ (22 :> "MX25L6405D")

\* pd.py:258, the erase granularity
SectorSize == 4096

NoCallback == ""

\* bit n of x
BitAt(x, n) == (x \div Shl(1, n)) % 2

\* decode_dual_bytes.combine_byte (pd.py:30-37): bits 0..3 of even go to the
\* even bits of the result, bits 0..3 of odd to the odd bits
RECURSIVE CombineLoop(_, _, _, _)
CombineLoop(even, odd, b, result) ==
    IF b = 4 THEN result
    ELSE LET r1 == IF BitAt(even, b) = 1 THEN BitOr(result, Shl(1, b * 2)) ELSE result
             r2 == IF BitAt(odd, b) = 1 THEN BitOr(r1, Shl(1, b * 2 + 1)) ELSE r1
         IN  CombineLoop(even, odd, b + 1, r2)

combine_byte(even, odd) == CombineLoop(even, odd, 0, 0)

\* (variant of decode_dual_bytes: the low nibbles come first)
decode_dual_bytes_low_first(sio0, sio1) ==
    <<combine_byte(sio0, sio1), combine_byte(sio0 \div 16, sio1 \div 16)>>

\* decode_dual_bytes (pd.py:27-38)
decode_dual_bytes(sio0, sio1) ==
    <<combine_byte(sio0 \div 16, sio1 \div 16), combine_byte(sio0, sio1)>>

\* decode_status_reg (pd.py:40-63): the five fields the text reports
decode_status_reg(d) ==
    <<BitAt(d, 0), BitAt(d, 1), (d \div 4) % 16, BitAt(d, 6), BitAt(d, 7)>>

\* an annotation: span, class, the text's wording t, the number v, the chip
\* name n and the characters d it carries
FAnn(s, e, c, t, v, n, d) ==
    [ss |-> s, es |-> e, cls |-> c, t |-> t, v |-> v, n |-> n, d |-> d]

\* '%02x' % b as its two hex digits; chr(b) as its code point
Hex2(b) == <<b \div 16, b % 16>>
Chr(b) == <<b>>

\* output_data_block's string (pd.py:366-369), one item per byte
FormatData(fmt, bytes) ==
    [i \in 1..Len(bytes) |-> IF fmt = "hex" THEN Hex2(bytes[i]) ELSE Chr(bytes[i])]

\* The decoder object as a record, so that handlers compose; keyerr marks a
\* KeyError raised inside a handler
Put(r, a) == [r EXCEPT !.out = Append(@, a)]

\* putx (pd.py:116-118)
putx(r, c, t, v, n, d) == Put(r, FAnn(r.ss, r.es, c, t, v, n, d))

\* putb (pd.py:120-121)
putb(r, c, t, v, n, d) == Put(r, FAnn(r.ss_block, r.es_block, c, t, v, n, d))

\* (variant of output_data_block: the block end is not moved to the boundary)
output_data_block_stale_end(r, label) ==
    putb(r, 25, label, Len(r.data), "", FormatData(r.format, r.data))

\* output_data_block (pd.py:362-370)
output_data_block(r, label) ==
    LET r1 == [r EXCEPT !.es_block = r.es]
    IN  putb(r1, 25, label, Len(r1.data), "", FormatData(r1.format, r1.data))

\* (variant of end_current_transaction: the callback stays registered)
end_current_transaction_keeps_callback(r) ==
    LET r1 == IF r.on_end # NoCallback THEN output_data_block(r, r.on_end) ELSE r
    IN  [r1 EXCEPT !.state = None, !.cmdstate = 1, !.addr = 0, !.data = <<>>]

\* end_current_transaction (pd.py:103-110)
end_current_transaction(r) ==
    LET r1 == IF r.on_end # NoCallback
              THEN [output_data_block(r, r.on_end) EXCEPT !.on_end = NoCallback]
              ELSE r
    IN  [r1 EXCEPT !.state = None, !.cmdstate = 1, !.addr = 0, !.data = <<>>]

\* addr |= mosi << ((4 - cmdstate) * 8)   (pd.py:182, 208, 250, 283)
AccAddr(a, mosi, cs) == BitOr(a, Shl(mosi, (4 - cs) * 8))

\* handle_wren (pd.py:123-125)
handle_wren(r, mosi, miso) ==
    [putx(r, 0, "Command", r.state, "", <<>>) EXCEPT !.state = None]

\* the handlers whose body is 'pass' (pd.py:127, 171, 266-273, 298-305, 341-360)
handle_pass(r, mosi, miso) == r

\* (variant of handle_rdid: the device annotation covers the 4th byte only)
handle_rdid_last_byte(r, mosi, miso) ==
    LET r1 == IF r.cmdstate = 1
              THEN putx([r EXCEPT !.ss_block = r.ss], 2, "Command", r.state, "", <<>>)
              ELSE IF r.cmdstate = 2 THEN putx(r, 2, "Manufacturer ID", miso, "", <<>>)
              ELSE IF r.cmdstate = 3 THEN putx(r, 2, "Memory type", miso, "", <<>>)
              ELSE IF r.cmdstate = 4
              THEN putx([r EXCEPT !.device_id = miso], 2, "Device ID", miso, "", <<>>)
              ELSE r
    IN  IF r1.cmdstate = 4
        THEN IF r1.device_id \in DOMAIN device_name
             THEN [Put(r1, FAnn(r1.ss, r1.es, 0, "Device", r1.device_id,
                                device_name[r1.device_id], <<>>))
                   EXCEPT !.state = None]
             ELSE [r1 EXCEPT !.keyerr = TRUE]
        ELSE [r1 EXCEPT !.cmdstate = @ + 1]

\* handle_rdid (pd.py:131-154)
handle_rdid(r, mosi, miso) ==
    LET r1 == IF r.cmdstate = 1
              THEN putx([r EXCEPT !.ss_block = r.ss], 2, "Command", r.state, "", <<>>)
              ELSE IF r.cmdstate = 2 THEN putx(r, 2, "Manufacturer ID", miso, "", <<>>)
              ELSE IF r.cmdstate = 3 THEN putx(r, 2, "Memory type", miso, "", <<>>)
              ELSE IF r.cmdstate = 4
              THEN putx([r EXCEPT !.device_id = miso], 2, "Device ID", miso, "", <<>>)
              ELSE r
    IN  IF r1.cmdstate = 4
        THEN IF r1.device_id \in DOMAIN device_name
             THEN [Put(r1, FAnn(r1.ss_block, r1.es, 0, "Device", r1.device_id,
                                device_name[r1.device_id], <<>>))
                   EXCEPT !.state = None]
             ELSE [r1 EXCEPT !.keyerr = TRUE]
        ELSE [r1 EXCEPT !.cmdstate = @ + 1]

\* handle_rdsr (pd.py:156-169)
handle_rdsr(r, mosi, miso) ==
    LET r1 == IF r.cmdstate = 1 THEN putx(r, 3, "Command", r.state, "", <<>>)
              ELSE putx(putx(r, 24, "Status register", miso, "", <<>>),
                        25, "Status text", miso, "", decode_status_reg(miso))
    IN  [r1 EXCEPT !.cmdstate = @ + 1]

\* handle_read (pd.py:174-195)
handle_read(r, mosi, miso) ==
    LET r1 ==
        IF r.cmdstate = 1 THEN putx(r, 5, "Command", r.state, "", <<>>)
        ELSE IF r.cmdstate \in {2, 3, 4}
        THEN LET a == [r EXCEPT !.addr = AccAddr(r.addr, mosi, r.cmdstate)]
             IN  IF r.cmdstate = 4
                 THEN [putx(a, 24, "Read address", a.addr, "", <<>>)
                       EXCEPT !.addr = 0]
                 ELSE a
        ELSE LET b == IF r.cmdstate = 5
                      THEN [r EXCEPT !.ss_block = r.ss, !.on_end = "Read"]
                      ELSE r
             IN  [b EXCEPT !.data = Append(@, miso)]
    IN  [r1 EXCEPT !.cmdstate = @ + 1]

\* handle_fast_read (pd.py:197-221)
handle_fast_read(r, mosi, miso) ==
    LET r1 ==
        IF r.cmdstate = 1 THEN putx(r, 5, "Command", r.state, "", <<>>)
        ELSE IF r.cmdstate \in {2, 3, 4}
        THEN LET a == putx(r, 24, "AD", mosi, "", <<r.cmdstate - 1>>)
                 b == IF r.cmdstate = 2 THEN [a EXCEPT !.ss_block = r.ss] ELSE a
             IN  [b EXCEPT !.addr = AccAddr(r.addr, mosi, r.cmdstate)]
        ELSE IF r.cmdstate = 5
        THEN LET a == putx(r, 24, "Dummy byte", mosi, "", <<>>)
                 b == [a EXCEPT !.es_block = r.es]
             IN  [putb(b, 5, "Read address", b.addr, "", <<>>)
                  EXCEPT !.addr = 0]
        ELSE LET b == IF r.cmdstate = 6
                      THEN [r EXCEPT !.ss_block = r.ss, !.on_end = "Read"]
                      ELSE r
             IN  [b EXCEPT !.data = Append(@, miso)]
    IN  [r1 EXCEPT !.cmdstate = @ + 1]

\* (variant of handle_2read: the pair is handed on as one byte)
handle_2read_one_byte(r, mosi, miso) ==
    IF r.cmdstate = 1
    THEN [putx(r, 5, "Command", r.state, "", <<>>) EXCEPT !.cmdstate = 2]
    ELSE LET ab == decode_dual_bytes(mosi, miso)
         IN  handle_fast_read(r, ab[1], ab[2])

\* handle_2read (pd.py:223-238)
handle_2read(r, mosi, miso) ==
    IF r.cmdstate = 1
    THEN [putx(r, 5, "Command", r.state, "", <<>>) EXCEPT !.cmdstate = 2]
    ELSE LET ab == decode_dual_bytes(mosi, miso)
         IN  handle_fast_read(handle_fast_read(r, ab[1], ab[1]), ab[2], ab[2])

\* (variant of handle_se: the alignment of the address is not looked at)
handle_se_no_alignment_test(r, mosi, miso) ==
    LET r1 ==
        IF r.cmdstate = 1
        THEN putx([r EXCEPT !.addr = 0, !.ss_block = r.ss], 8, "Command", r.state, "", <<>>)
        ELSE IF r.cmdstate \in {2, 3, 4}
        THEN [r EXCEPT !.addr = AccAddr(r.addr, mosi, r.cmdstate)]
        ELSE r
    IN  IF r1.cmdstate = 4
        THEN [Put(r1, FAnn(r1.ss_block, r1.es, 24, "Erase sector", r1.addr, "", <<>>))
              EXCEPT !.state = None]
        ELSE [r1 EXCEPT !.cmdstate = @ + 1]

\* handle_se (pd.py:242-264)
handle_se(r, mosi, miso) ==
    LET r1 ==
        IF r.cmdstate = 1
        THEN putx([r EXCEPT !.addr = 0, !.ss_block = r.ss], 8, "Command", r.state, "", <<>>)
        ELSE IF r.cmdstate \in {2, 3, 4}
        THEN [r EXCEPT !.addr = AccAddr(r.addr, mosi, r.cmdstate)]
        ELSE r
    IN  IF r1.cmdstate = 4
        THEN LET a == Put(r1, FAnn(r1.ss_block, r1.es, 24, "Erase sector", r1.addr, "", <<>>))
                 b == IF r1.addr % SectorSize # 0
                      THEN Put(a, FAnn(a.ss_block, a.es, 101,
                                       "Warning: Invalid sector address!", 0, "", <<>>))
                      ELSE a
             IN  [b EXCEPT !.state = None]
        ELSE [r1 EXCEPT !.cmdstate = @ + 1]

\* handle_pp (pd.py:275-296)
handle_pp(r, mosi, miso) ==
    LET r1 ==
        IF r.cmdstate = 1 THEN putx(r, 12, "Command", r.state, "", <<>>)
        ELSE IF r.cmdstate \in {2, 3, 4}
        THEN LET a == [r EXCEPT !.addr = AccAddr(r.addr, mosi, r.cmdstate)]
             IN  IF r.cmdstate = 4
                 THEN [putx(a, 24, "Page address", a.addr, "", <<>>)
                       EXCEPT !.addr = 0]
                 ELSE a
        ELSE LET b == IF r.cmdstate = 5
                      THEN [r EXCEPT !.ss_block = r.ss, !.on_end = "Page data"]
                      ELSE r
             IN  [b EXCEPT !.data = Append(@, mosi)]
    IN  [r1 EXCEPT !.cmdstate = @ + 1]

\* handle_rems (pd.py:307-339)
handle_rems(r, mosi, miso) ==
    LET who(x) == IF x.mfirst THEN "Manufacturer ID" ELSE "Device ID"
        r1 ==
        IF r.cmdstate = 1
        THEN putx([r EXCEPT !.ss_block = r.ss], 16, "Command", r.state, "", <<>>)
        ELSE IF r.cmdstate \in {2, 3} THEN putx(r, 24, "Dummy byte", mosi, "", <<>>)
        ELSE IF r.cmdstate = 4
        THEN putx([r EXCEPT !.mfirst = (mosi = 0)], 24,
                  IF mosi = 0 THEN "Master wants manufacturer ID first"
                  ELSE "Master wants device ID first", 0, "", <<>>)
        ELSE IF r.cmdstate = 5
        THEN putx([r EXCEPT !.ids = <<miso>>], 24, who(r), 0, "", <<>>)
        ELSE IF r.cmdstate = 6
        THEN putx([r EXCEPT !.ids = Append(@, miso)], 24, who(r), 0, "", <<>>)
        ELSE r
    IN  IF r1.cmdstate = 6
        THEN LET id == IF r1.mfirst THEN r1.ids[2] ELSE r1.ids[1]
             IN  IF id \in DOMAIN device_name
                 THEN [putx(r1, 24, "Device", id, device_name[id], <<>>)
                       EXCEPT !.state = None]
                 ELSE [r1 EXCEPT !.keyerr = TRUE]
        ELSE [r1 EXCEPT !.cmdstate = @ + 1]

\* self.cmd_handlers[self.state](mosi, miso)   (pd.py:98-101, 390)
CallHandler(name, r, mosi, miso) ==
    CASE name = "wren"      -> handle_wren(r, mosi, miso)
      [] name = "rdid"      -> handle_rdid(r, mosi, miso)
      [] name = "rdsr"      -> handle_rdsr(r, mosi, miso)
      [] name = "read"      -> handle_read(r, mosi, miso)
      [] name = "fast_read" -> handle_fast_read(r, mosi, miso)
      [] name = "2read"     -> handle_2read(r, mosi, miso)
      [] name = "se"        -> handle_se(r, mosi, miso)
      [] name = "pp"        -> handle_pp(r, mosi, miso)
      [] name = "rems"      -> handle_rems(r, mosi, miso)
      [] OTHER              -> handle_pass(r, mosi, miso)

\* (variant of OnKeyError: the opcode without a handler stays active)
OnKeyError_keeps_state(r, mosi) ==
    [putx(r, 24, "Unknown command", mosi, "", <<>>) EXCEPT !.keyerr = FALSE]

\* the except KeyError branch of decode (pd.py:391-393)
OnKeyError(r, mosi) ==
    [putx(r, 24, "Unknown command", mosi, "", <<>>) EXCEPT !.state = None, !.keyerr = FALSE]

\* (variant of decode: every packet that is not DATA ends the session)
decode_flush_on_other(r, s, e, ptype, mosi, miso) ==
    LET r1 == [r EXCEPT !.ss = s, !.es = e, !.out = <<>>, !.keyerr = FALSE]
        r2 == IF ptype # "DATA" THEN end_current_transaction(r1) ELSE r1
        r3 == IF r2.state = None THEN [r2 EXCEPT !.state = mosi, !.cmdstate = 1] ELSE r2
    IN  IF ptype # "DATA" THEN r2
        ELSE IF r3.state \notin DOMAIN cmds THEN OnKeyError(r3, mosi)
        ELSE LET r4 == CallHandler(cmds[r3.state], r3, mosi, miso)
             IN  IF r4.keyerr THEN OnKeyError(r4, mosi) ELSE r4

\* Decoder.decode (pd.py:372-393)
decode(r, s, e, ptype, mosi, miso) ==
    LET r1 == [r EXCEPT !.ss = s, !.es = e, !.out = <<>>, !.keyerr = FALSE]
        r2 == IF ptype = "CS-CHANGE" THEN end_current_transaction(r1) ELSE r1
        r3 == IF r2.state = None THEN [r2 EXCEPT !.state = mosi, !.cmdstate = 1] ELSE r2
    IN  IF ptype # "DATA" THEN r2
        ELSE IF r3.state \notin DOMAIN cmds THEN OnKeyError(r3, mosi)
        ELSE LET r4 == CallHandler(cmds[r3.state], r3, mosi, miso)
             IN  IF r4.keyerr THEN OnKeyError(r4, mosi) ELSE r4


----------------------------------------------------------------------------
\* spiflash: the packets fed by the SPI decoder below

\* opcode bytes the model sends: every handler with a body, one 'pass'
\* handler (wrdi) and one byte without a handler (255)
OpBytes == {6, 4, 159, 5, 3, 11, 187, 32, 2, 144, 255}
\* bytes sent inside a command (and as opcodes: 0 and 16 have no handler,
\* 1 is wrsr)
ArgBytes == {0, 1, 16}
\* bytes on the MISO line: no known device id, a known device id
MisoBytes == {0, 20}
\* the DATA packets fed: an opcode byte (MISO idle), or an argument byte
\* with any of the MISO bytes
DataPackets == (OpBytes \X {0}) \cup (ArgBytes \X MisoBytes)
\* the DATA packets of the addressed commands (read, fast read, page
\* program, sector erase) and their argument bytes
AddrPackets == ({3, 11, 2, 32} \cup ArgBytes) \X {0}

\* the decoder object as the record the handlers work on
Cur ==
    [state |-> fstate, cmdstate |-> cmdstate, addr |-> addr, data |-> data,
     on_end |-> on_end_transaction, ss |-> ss, es |-> es, ss_block |-> ss_block,
     es_block |-> es_block, device_id |-> device_id, ids |-> ids,
     mfirst |-> manufacturer_id_first, format |-> format, out |-> fout,
     keyerr |-> FALSE]

\* Decoder.__init__ (pd.py:91-101) and the options of start() (pd.py:112-114);
\* fields created later (ss, es, ss_block, es_block, device_id, ids,
\* manufacturer_id_first) are shown as None, <<>> and FALSE
InitFlash ==
    /\ fstate = None
    /\ cmdstate = 1
    /\ addr = 0
    /\ data = <<>>
    /\ on_end_transaction = NoCallback
    /\ ss = None /\ es = None /\ ss_block = None /\ es_block = None
    /\ device_id = None
    /\ ids = <<>>
    /\ manufacturer_id_first = FALSE
    /\ format \in {"hex", "ascii"}
    /\ fout = <<>>
    /\ ev = [ptype |-> "", mosi |-> None, miso |-> None]
    /\ now = 0
    /\ f_prev_hi = -1
    /\ g_op = None
    /\ g_p = 0
    /\ g_ab = <<>>
    /\ g_data = <<>>
    /\ g_ss = None
    /\ g_cs = None

\* one call of decode(ss, es, [ptype, mosi, miso]) and what it leaves behind
Packet(ptype, mosi, miso) ==
    \E r \in {decode(Cur, now, now + 1, ptype, mosi, miso)} :
        /\ fstate' = r.state
        /\ cmdstate' = r.cmdstate
        /\ addr' = r.addr
        /\ data' = r.data
        /\ on_end_transaction' = r.on_end
        /\ ss' = r.ss
        /\ es' = r.es
        /\ ss_block' = r.ss_block
        /\ es_block' = r.es_block
        /\ device_id' = r.device_id
        /\ ids' = r.ids
        /\ manufacturer_id_first' = r.mfirst
        /\ fout' = r.out
        /\ ev' = [ptype |-> ptype, mosi |-> mosi, miso |-> miso]
        /\ now' = now + 1
        /\ f_prev_hi' = Max(f_prev_hi, MaxSs(fout))
        /\ UNCHANGED <<format, sio, pair>>
        /\ UNCHANGED dvars

\* a DATA packet
Data(mosi, miso, max) ==
    /\ now < max
    /\ Len(data) < MaxData
    /\ fstate # None => mosi \in ArgBytes
    /\ Packet("DATA", mosi, miso)
    /\ LET newcmd == fstate = None
           op == IF newcmd THEN mosi ELSE g_op
           p  == IF newcmd THEN 1 ELSE g_p + 1
           dual == decode_dual_bytes(mosi, miso)
           got == IF op = 3 /\ p >= 5 THEN <<miso>>
                  ELSE IF op = 2 /\ p >= 5 THEN <<mosi>>
                  ELSE IF op = 11 /\ p >= 6 THEN <<miso>>
                  ELSE IF op = 187 /\ p >= 4 THEN dual
                  ELSE <<>>
           old == IF newcmd THEN <<>> ELSE g_data
       IN  /\ g_op' = op
           /\ g_p' = p
           /\ g_ab' = IF newcmd THEN <<>>
                      ELSE IF p \in {2, 3, 4} THEN Append(g_ab, mosi) ELSE g_ab
           /\ g_data' = old \o got
           /\ g_ss' = IF newcmd THEN None
                      ELSE IF old = <<>> /\ got # <<>> THEN now ELSE g_ss
           /\ g_cs' = IF fstate' = None THEN None ELSE IF newcmd THEN now ELSE g_cs

\* a CS-CHANGE packet: the session boundary
CsChange(max) ==
    /\ now < max
    /\ Packet("CS-CHANGE", None, None)
    /\ g_data' = <<>> /\ g_ss' = None /\ g_cs' = None
    /\ UNCHANGED <<g_op, g_p, g_ab>>

\* any other packet of the SPI decoder (BITS)
Other(max) ==
    /\ now < max
    /\ Packet("BITS", None, None)
    /\ UNCHANGED <<g_op, g_p, g_ab, g_data, g_ss, g_cs>>

NextFlash ==
    \/ \E d \in DataPackets : Data(d[1], d[2], MaxEvents)
    \/ CsChange(MaxEvents)
    \/ Other(MaxEvents)

NextFlashAddr ==
    \/ \E d \in AddrPackets : Data(d[1], d[2], MaxAddrEvents)
    \/ CsChange(MaxAddrEvents)

\* the arguments decode_dual_bytes is called with: any two bytes
Bytes == 0..255

\* no call of decode_dual_bytes made on its own
InitDual == sio = <<0, 0>> /\ pair = <<>>

\* one call of decode_dual_bytes(sio0, sio1) (pd.py:27-38)
CallDual ==
    /\ pair = <<>>
    /\ pair' = decode_dual_bytes(sio[1], sio[2])
    /\ UNCHANGED sio
    /\ UNCHANGED <<fstate, cmdstate, addr, data, on_end_transaction, ss, es, ss_block,
                   es_block, device_id, ids, manufacturer_id_first, format, fout, ev,
                   now, f_prev_hi, g_op, g_p, g_ab, g_data, g_ss, g_cs>>
    /\ UNCHANGED dvars

NextDual == CallDual

----------------------------------------------------------------------------
\* The specifications: one decoder object each

\* the dmx512 decoder at work; the spiflash decoder stays as constructed
InitSpecDmx == InitDmx /\ InitFlash /\ InitDual /\ format = "hex"

SpecDmx == InitSpecDmx /\ [][NextDmx]_vars

\* the spiflash decoder at work; the dmx512 decoder stays as constructed
InitSpecFlash == InitFlash /\ InitDmx /\ InitDual /\ feed = FreeFeed

SpecFlash == InitSpecFlash /\ [][NextFlash]_vars

\* the spiflash decoder fed addressed commands only, over longer streams
InitSpecFlashAddr == InitSpecFlash /\ format = "hex"

SpecFlashAddr == InitSpecFlashAddr /\ [][NextFlashAddr]_vars

\* decode_dual_bytes called on its own with every pair of bytes
InitSpecDual ==
    /\ InitFlash /\ InitDmx /\ feed = FreeFeed /\ format = "hex"
    /\ sio \in Bytes \X Bytes
    /\ pair = <<>>

SpecDual == InitSpecDual /\ [][NextDual]_vars

----------------------------------------------------------------------------
\* Claims about the bit-timing engine (dmx512)

\* the sample being processed closes a bit window of READ_BYTE
WindowEnds == state = "READ_BYTE" /\ samplenum + 1 = run_start + (bit + 1) * skip_per_bit

\* the value the closing window decodes to (rounded mean against break level)
WindowValue == IF Round(aggreg + pin', skip_per_bit) = bit_break THEN 0 ELSE 1

Sampled == samplenum' = samplenum + 1

\* C2: whenever a stop-bit window (bit index 9 or 10) decodes to a value
\* other than 1, an 'Invalid stop bit' error is emitted and, once the sample
\* has been processed, the engine is in FIND_BREAK (never in the gap state).
C2_InvalidStopResyncs ==
    [][(Sampled /\ WindowEnds /\ bit >= 9 /\ WindowValue # 1)
        => (HasText(out', "Invalid stop bit") /\ state' = "FIND_BREAK")]_vars

\* C4: a start-bit window that decodes to 1 yields exactly one 'Invalid start
\* bit' annotation and a return to FIND_BREAK; and while the engine is seeking
\* after it, every level change that closes a constant-level run whose own
\* duration is strictly between 88 and 180 us is annotated as 'Break'.
C4_BreakAfterInvalidStart ==
    [][/\ (Sampled /\ WindowEnds /\ bit = 0 /\ WindowValue = 1)
           => (CountCls(out', 10) = 1 /\ HasText(out', "Invalid start bit")
               /\ state' = "FIND_BREAK")
       /\ (Sampled /\ state = "FIND_BREAK" /\ resync = "start" /\ pin' # pin
           /\ (samplenum' - lvl_start) * sample_usec > 88
           /\ (samplenum' - lvl_start) * sample_usec < 180)
           => HasText(out', "Break")]_vars

\* C5: in FIND_BREAK, on a level change, the closed run is a BREAK (one 'Break'
\* annotation over the run, break level recorded, channel 0, state MARK_MAB)
\* iff 88 < (sample delta * usec per sample) < 180; otherwise nothing is
\* emitted and the engine stays in FIND_BREAK; either way the run start and
\* run level become the current sample's.
C5_BreakWindow ==
    [][(Sampled /\ state = "FIND_BREAK" /\ pin' # run_bit)
        => LET d == (samplenum' - run_start) * sample_usec
           IN  /\ IF d > 88 /\ d < 180
                  THEN /\ out' = <<Ann(run_start, samplenum', 1, "Break", 0)>>
                       /\ bit_break' = run_bit
                       /\ channel' = 0
                       /\ state' = "MARK_MAB"
                  ELSE /\ out' = <<>>
                       /\ state' = "FIND_BREAK"
               /\ run_start' = samplenum'
               /\ run_bit' = pin']_vars

\* C5 witness: a break of the shortest in-window duration has just been found
C5_Witness ==
    /\ state = "MARK_MAB"
    /\ Len(out) = 1 /\ out[1].t = "Break" /\ out[1].ss > 0
    /\ (out[1].es - out[1].ss) * sample_usec = 92

\* C6: the channel counter is 0 after every BREAK, grows by exactly 1 with
\* each completed byte and changes at no other time; in the gap state a level
\* change is 'Interpacket' (to FIND_BREAK) exactly when the counter exceeds
\* 512, and 'Interframe' (to READ_BYTE, bit index 0) otherwise.
C6_ChannelCounter ==
    [][Sampled =>
        /\ HasText(out', "Break") => channel' = 0
        /\ CountCls(out', 9) <= 1
        /\ CountCls(out', 9) = 1 => channel' = channel + 1
        /\ channel' # channel => (HasText(out', "Break") \/ CountCls(out', 9) = 1)
        /\ (state = "MARK_IFT" /\ pin' # run_bit) =>
              IF channel > 512
              THEN /\ out' = <<Ann(run_start, samplenum', 8, "Interpacket", 0)>>
                   /\ state' = "FIND_BREAK"
              ELSE /\ out' = <<Ann(run_start, samplenum', 7, "Interframe", 0)>>
                   /\ state' = "READ_BYTE" /\ bit' = 0]_vars

\* C6 witness: the gap after the 513th byte has just been classified
C6_Witness == HasText(out, "Interpacket") /\ channel = 513 /\ state = "FIND_BREAK"

\* C7: a well-formed synthetic frame of N channel bytes, fed completely,
\* yields exactly N+1 data annotations carrying the transmitted bytes in
\* order and no error annotation, at every samples-per-bit value >= 1.
C7_RoundTrip ==
    (feed.kind = "frame" /\ samplerate # None
     /\ samplenum = FrameLen(feed, sample_usec, skip_per_bit) - 1)
    => (nData = feed.n + 1 /\ dataOk /\ nErr = 0)

----------------------------------------------------------------------------
\* Claims about the dispatch engine (spiflash)

\* the step processes a packet of the given type
Fed(ptype) == now' = now + 1 /\ ev'.ptype = ptype

IsDump(a) == a.cls = 25 /\ a.t \in {"Read", "Page data"}

\* the bytes a dump annotation lists, read back from its characters
DumpBytes(a) ==
    [i \in 1..Len(a.d) |-> IF Len(a.d[i]) = 2 THEN 16 * a.d[i][1] + a.d[i][2]
                           ELSE a.d[i][1]]

\* C1: on every CS-CHANGE packet, in whatever state, a pending end-of-session
\* callback is invoked exactly once (one dump annotation, none if no callback
\* was pending), and afterwards no opcode is active, cmdstate is 1, the
\* address accumulator is 0, the data buffer is empty and no callback is
\* pending (so a later boundary invokes nothing again).
C1_SessionBoundary ==
    [][Fed("CS-CHANGE") =>
        /\ IF on_end_transaction # NoCallback
           THEN /\ Len(fout') = 1
                /\ IsDump(fout'[1])
                /\ fout'[1].t = on_end_transaction
           ELSE fout' = <<>>
        /\ fstate' = None
        /\ cmdstate' = 1
        /\ addr' = 0
        /\ data' = <<>>
        /\ on_end_transaction' = NoCallback]_vars

\* C1 witness: a boundary has just flushed a session that had a callback
\* pending and data buffered
C1_Witness ==
    /\ ev.ptype = "CS-CHANGE"
    /\ Len(fout) = 1 /\ IsDump(fout[1]) /\ fout[1].v > 0
    /\ fstate = None /\ on_end_transaction = NoCallback /\ data = <<>>

\* C3: a DATA packet whose MOSI byte is taken as opcode (no opcode active)
\* and has no handler emits exactly one 'Unknown command' annotation over
\* that packet and leaves the engine awaiting an opcode at offset 1; the
\* data buffer and the pending callback are untouched.
C3_UnknownCommand ==
    [][(Fed("DATA") /\ fstate = None /\ ev'.mosi \notin DOMAIN cmds) =>
        /\ fout' = <<FAnn(now, now + 1, 24, "Unknown command", ev'.mosi, "", <<>>)>>
        /\ fstate' = None
        /\ cmdstate' = 1
        /\ data' = data
        /\ on_end_transaction' = on_end_transaction]_vars

\* C3 witness: the byte 255, which has no handler, has just been reported
C3_Witness ==
    /\ ev.ptype = "DATA" /\ ev.mosi = 255
    /\ Len(fout) = 1 /\ fout[1].t = "Unknown command" /\ fout[1].v = 255
    /\ fstate = None

\* no annotation of anns starts before hi or before one emitted ahead of it
NonDecreasing(hi, anns) ==
    /\ \A i \in 1..Len(anns) : anns[i].ss >= hi
    /\ \A i, j \in 1..Len(anns) : i < j => anns[i].ss <= anns[j].ss

\* C8: in each engine the annotations are non-decreasing in start sample in
\* emission order (for dmx512: among those emitted for one sample; for
\* spiflash: against everything emitted before).
C8_StartOrder == NonDecreasing(f_prev_hi, fout) /\ NonDecreasing(-1, out)

\* C9: a data-block dump is emitted iff at least one data byte was received
\* before the session boundary; then exactly once, at the CS-CHANGE packet and
\* not before, spanning from the start of the first data byte to the end of
\* the boundary packet and listing exactly the session's data bytes in order.
C9_DataBlockDump ==
    [][/\ Fed("CS-CHANGE") =>
            IF g_data # <<>>
            THEN /\ Len(fout') = 1
                 /\ IsDump(fout'[1])
                 /\ fout'[1].ss = g_ss
                 /\ fout'[1].es = now + 1
                 /\ fout'[1].v = Len(g_data)
                 /\ DumpBytes(fout'[1]) = g_data
                 /\ fout'[1].t = IF g_op = 2 THEN "Page data" ELSE "Read"
            ELSE fout' = <<>>
       /\ (Fed("DATA") \/ Fed("BITS")) =>
            \A i \in 1..Len(fout') : ~IsDump(fout'[i])]_vars

\* C9 witnesses: a page-program session cut off before any data byte has
\* just ended without a dump; a session with data has just been dumped
C9_WitnessEarly ==
    /\ ev.ptype = "CS-CHANGE" /\ fout = <<>> /\ g_op = 2 /\ g_p = 4

C9_Witness ==
    /\ ev.ptype = "CS-CHANGE" /\ g_op = 2 /\ g_p = 6
    /\ Len(fout) = 1 /\ IsDump(fout[1]) /\ fout[1].t = "Page data"
    /\ fout[1].v = 2 /\ DumpBytes(fout[1]) = <<16, 1>>

\* C10: the address reported for a read, fast read, page program or sector
\* erase command, wherever it starts, is b1*65536 + b2*256 + b3 for the
\* three address bytes of that command in arrival order.
C10_Address ==
    \A i \in 1..Len(fout) :
        (fout[i].t \in {"Read address", "Page address", "Erase sector"}
         /\ g_op \in {3, 11, 2, 32})
        => (Len(g_ab) = 3 /\ fout[i].v = g_ab[1] * 65536 + g_ab[2] * 256 + g_ab[3])

\* the opcodes whose handler announces the command on its first byte
Announced == {6, 159, 5, 3, 11, 187, 32, 2, 144}

\* the packet is taken as a new opcode at offset 1: announced, or reported
\* as unknown, or (a handler without a body) silently made the active opcode
TakenAsOpcode ==
    IF ev'.mosi \notin DOMAIN cmds
    THEN fout' = <<FAnn(now, now + 1, 24, "Unknown command", ev'.mosi, "", <<>>)>>
    ELSE IF ev'.mosi \in Announced
    THEN /\ Len(fout') >= 1
         /\ fout'[1].t = "Command" /\ fout'[1].v = ev'.mosi
         /\ fout'[1].ss = now /\ fout'[1].es = now + 1
    ELSE fout' = <<>> /\ fstate' = ev'.mosi /\ cmdstate' = 1

\* C11: the 4th DATA packet of a read-identification exchange, carrying a
\* device id of the id-to-name table, emits exactly one 'Device' annotation
\* with the table's name for that id, spanning from the start of the opcode
\* packet to the end of the 4th; afterwards no opcode is active, and the next
\* DATA packet is taken as a new opcode at offset 1.
C11_ReadIdentification ==
    [][/\ (Fed("DATA") /\ fstate = 159 /\ g_p = 3 /\ ev'.miso \in DOMAIN device_name)
           => /\ \E i \in 1..Len(fout') :
                    /\ fout'[i].t = "Device"
                    /\ fout'[i].n = device_name[ev'.miso]
                    /\ fout'[i].ss = g_cs
                    /\ fout'[i].es = now + 1
                    /\ \A j \in 1..Len(fout') : fout'[j].t = "Device" => j = i
              /\ fstate' = None
       /\ (Fed("DATA") /\ g_op = 159 /\ g_p = 4 /\ fstate = None) => TakenAsOpcode]_vars

\* C11 witness: the device MX25L1605D has just been named, over four packets
C11_Witness ==
    /\ ev.ptype = "DATA" /\ ev.miso = 20 /\ g_op = 159 /\ g_p = 4
    /\ Len(fout) = 2 /\ fout[2].t = "Device" /\ fout[2].n = "MX25L1605D"
    /\ fout[2].es - fout[2].ss >= 4
    /\ fstate = None

\* the positions of the warning annotations among anns
Warnings(anns) == {i \in 1..Len(anns) : anns[i].t = "Warning: Invalid sector address!"}

C13_SingleByteCommands ==
    [][(Fed("DATA") /\ fstate = None /\ ev'.mosi \in {6, 4}) => fstate' = None]_vars

\* the inverse the claim names: the even bits of the two bytes go back to
\* the primary byte, the odd bits to the secondary (first byte = high nibble)
Resplit(a, b) ==
    LET nib(x, k) == BitAt(x, k) + 2 * BitAt(x, k + 2) + 4 * BitAt(x, k + 4)
                     + 8 * BitAt(x, k + 6)
    IN  <<16 * nib(a, 0) + nib(b, 0), 16 * nib(a, 1) + nib(b, 1)>>

\* C14: for every primary and secondary byte, decode_dual_bytes returns two
\* bytes, and re-splitting them returns the original pair (so the mapping is
\* one-to-one on the 65536 byte pairs, hence a bijection).
C14_DualRoundTrip ==
    pair # <<>> =>
        /\ pair[1] \in Bytes /\ pair[2] \in Bytes
        /\ Resplit(pair[1], pair[2]) = sio

\* C14 witness: 0xa5 / 0x5a has been de-interleaved to 0x66, 0x99
C14_Witness == sio = <<165, 90>> /\ pair = <<102, 153>>

\* C15: while no sample rate has been supplied, a call of decode fails
\* with an error, emits nothing and leaves the FSM state, the run start, the
\* run level and the sample number as they were.
C15_NotConfigured ==
    [][(samplerate = None /\ samplerate' = None) =>
        /\ err' # ""
        /\ out' = <<>>
        /\ state' = state /\ run_start' = run_start
        /\ run_bit' = run_bit /\ samplenum' = samplenum]_vars

\* C15 witness: decode has just failed on the decoder as constructed
C15_Witness ==
    /\ err = "Cannot decode without samplerate." /\ samplerate = None
    /\ state = "FIND_BREAK" /\ samplenum = -1 /\ run_start = -1 /\ out = <<>>

\* C16: a packet that is neither DATA nor CS-CHANGE emits nothing and leaves
\* the active opcode, cmdstate, the address accumulator, the data buffer and
\* the pending callback unchanged.
C16_OtherPacketsIgnored ==
    [][Fed("BITS") =>
        /\ fout' = <<>>
        /\ fstate' = fstate /\ cmdstate' = cmdstate /\ addr' = addr
        /\ data' = data /\ on_end_transaction' = on_end_transaction]_vars

\* C16 witness: such a packet has just passed in the middle of a page program
\* with data buffered and the callback pending
C16_Witness ==
    /\ ev.ptype = "BITS" /\ fout = <<>>
    /\ fstate = 2 /\ cmdstate > 5 /\ data # <<>> /\ on_end_transaction = "Page data"

\* C17: every annotation emitted carries one of the declared class ids
\* 0..26, and the misaligned-erase warning carries 26 ('warnings').
C17_DeclaredClasses ==
    \A i \in 1..Len(fout) :
        /\ fout[i].cls \in 0..26
        /\ i \in Warnings(fout) => fout[i].cls = 26

\* samples accumulated when a window closes: the sample kept when the
\* previous window closed (or the byte began) and skip_per_bit more
WindowSamples == skip_per_bit + 1

\* the bit value the closing window was given, as the output shows it
DecodedBit ==
    IF bit = 0 THEN (IF HasText(out', "Invalid start bit") THEN 1 ELSE 0)
    ELSE IF bit >= 9 THEN (IF HasText(out', "Invalid stop bit") THEN 0 ELSE 1)
    ELSE out'[1].v

\* C18: a window in which every accumulated sample holds the break level
\* decodes to 0, and one in which every accumulated sample holds the
\* opposite level decodes to 1, for either break level and every
\* samples-per-bit value of at least 1.
C18_MajorityVote ==
    [][(Sampled /\ WindowEnds /\ skip_per_bit >= 1) =>
        /\ (aggreg + pin' = WindowSamples * bit_break) => DecodedBit = 0
        /\ (aggreg + pin' = WindowSamples * (1 - bit_break)) => DecodedBit = 1]_vars

\* the state changes of the engine
Transitions ==
    {<<"FIND_BREAK", "MARK_MAB">>, <<"MARK_MAB", "READ_BYTE">>,
     <<"READ_BYTE", "MARK_IFT">>, <<"READ_BYTE", "FIND_BREAK">>,
     <<"MARK_IFT", "READ_BYTE">>, <<"MARK_IFT", "FIND_BREAK">>}

\* C19: the engine starts in FIND_BREAK; every change of state is one of the
\* six transitions, each with its cause (break detected, level change, byte
\* completed at bit index 10, invalid start or stop bit, interframe,
\* interpacket); the state is always one of the four, each of which has a
\* transition out of it.
C19_StateMachine ==
    /\ state = "FIND_BREAK"
    /\ [][/\ state' \in {"FIND_BREAK", "MARK_MAB", "READ_BYTE", "MARK_IFT"}
          /\ \E t \in Transitions : t[1] = state'
          /\ state' # state =>
               /\ <<state, state'>> \in Transitions
               /\ Sampled
               /\ CASE state' = "MARK_MAB" -> HasText(out', "Break")
                    [] state = "MARK_MAB" -> pin' # run_bit /\ HasText(out', "MAB")
                    [] state = "READ_BYTE" /\ state' = "MARK_IFT" ->
                           bit = 10 /\ CountCls(out', 9) = 1
                    [] state = "READ_BYTE" /\ state' = "FIND_BREAK" ->
                           HasText(out', "Invalid start bit")
                           \/ HasText(out', "Invalid stop bit")
                    [] state = "MARK_IFT" /\ state' = "READ_BYTE" ->
                           HasText(out', "Interframe")
                    [] state = "MARK_IFT" /\ state' = "FIND_BREAK" ->
                           HasText(out', "Interpacket")]_vars

\* C19 witness: after break, mark, start code and gap the engine is back
\* reading a byte
C19_Witness ==
    /\ state = "READ_BYTE" /\ HasText(out, "Interframe") /\ channel = 1 /\ bit = 0

\* the addresses reported among anns, in order
RECURSIVE AddrReports(_)
AddrReports(anns) ==
    IF anns = <<>> THEN <<>>
    ELSE (IF Head(anns).t = "Read address" THEN <<Head(anns).v>> ELSE <<>>)
         \o AddrReports(Tail(anns))

\* C20: a byte pair processed by the dual-I/O read handler after the opcode
\* leaves cmdstate, the address accumulator, the data buffer and the pending
\* callback as the fast-read handler leaves them after the two de-interleaved
\* bytes in order, and reports the same address; after k >= 2 pairs the data
\* buffer holds exactly 2*(k-2) bytes.
C20_DualReadRefinesFastRead ==
    [][(Fed("DATA") /\ fstate = 187) =>
        \E ab \in {decode_dual_bytes(ev'.mosi, ev'.miso)} :
        \E r0 \in {[Cur EXCEPT !.ss = now, !.es = now + 1, !.out = <<>>, !.keyerr = FALSE]} :
        \E ref \in {handle_fast_read(handle_fast_read(r0, ab[1], ab[1]), ab[2], ab[2])} :
            /\ cmdstate' = ref.cmdstate
            /\ addr' = ref.addr
            /\ data' = ref.data
            /\ on_end_transaction' = ref.on_end
            /\ AddrReports(fout') = AddrReports(ref.out)
            /\ g_p >= 2 => Len(data') = 2 * (g_p - 2)]_vars

\* C20 witness: the third pair after the opcode has brought two data bytes
C20_Witness ==
    /\ ev.ptype = "DATA" /\ fstate = 187 /\ g_op = 187 /\ g_p = 4
    /\ Len(data) = 2 /\ on_end_transaction = "Read"

\* C21: every 'Break' annotation covers samples that all hold one level, the
\* recorded break level: it does not begin before the sample at which the
\* level of the run it closes began, and it ends at the level change; and
\* when an invalid start or stop bit sends the engine back to FIND_BREAK, the
\* run start it measures from is the sample at which the level now held began.
C21_BreakSpansOneLevel ==
    [][Sampled =>
        /\ \A i \in 1..Len(out') :
              out'[i].t = "Break" =>
                  /\ Max(out'[i].ss, 0) >= lvl_start
                  /\ out'[i].es = samplenum'
                  /\ bit_break' = pin
        /\ (state' = "FIND_BREAK"
            /\ (HasText(out', "Invalid start bit") \/ HasText(out', "Invalid stop bit")))
           => run_start' = lvl_start']_vars

\* the opcode a DATA packet is dispatched on
ActiveOpcode == IF fstate = None THEN ev'.mosi ELSE fstate

\* C22: a DATA packet produces an 'Unknown command' annotation only if the
\* opcode it is dispatched on has no registered handler.
C22_UnknownOnlyWithoutHandler ==
    [][(Fed("DATA") /\ HasText(fout', "Unknown command"))
        => ActiveOpcode \notin DOMAIN cmds]_vars

====
